---- MODULE Spec2Model ----
(***************************************************************************)
(* Typed cross-context messaging and settings synchronisation of the       *)
(* extension: the message router (lib/messaging.ts createMessageHandler),  *)
(* the channel adapters (sendToBackground, sendToTab, sendToActiveTab),    *)
(* the settings store (lib/storage.ts) and the background controller       *)
(* (background/index.ts).  The host (chrome.runtime, chrome.tabs,          *)
(* chrome.storage) is the environment: each of its outcomes is a           *)
(* nondeterministic choice.                                                *)
(***************************************************************************)
EXTENDS Integers, Sequences, FiniteSets, TLC

\* ------------------------------------------------------------------ bounds
MaxCallers == 2      \* router: contexts with a message at the router
MaxClients == 1      \* adapters, controller: contexts with a call outstanding
MaxTabs == 2         \* browser tabs that have an id

Callers == 1..MaxCallers
Clients == 1..MaxClients
Tabs == 1..MaxTabs
NoTab == 0           \* `undefined` tab id (sender.tab absent, tab.id absent)
NoWindow == -1       \* the active-tab query matches nothing

MaxListeners == 2    \* calls of createMessageHandler in one context
MaxCallbacks == 2    \* functions passed to onStorageChange
MaxChanges == 2      \* changes of the store whose events are followed

Callbacks == 1..MaxCallbacks

\* ------------------------------------------------------------- data model
\* keyof MessageTypes
MessageType ==
  {"GET_TAB_INFO", "TOGGLE_EXTENSION", "GET_SETTINGS", "UPDATE_SETTINGS",
   "CONTENT_ACTION"}

\* the `void` / `undefined` request payload
Void == [void |-> TRUE]

\* a JS value that is `undefined` where a MessageResponse was expected
Undefined == [undefined |-> TRUE]

\* thrown values: an Error object carrying a message, or any other value
Err(m) == [isError |-> TRUE, message |-> m]
NonError == [isError |-> FALSE, message |-> "not an Error"]

\* messages of the host's own failures
NoReceiver == "Could not establish connection. Receiving end does not exist."
PortClosedMsg == "The message port closed before a response was received."
QueryFailed == "Tabs cannot be queried right now."
StorageFailed == "storage I/O failure"

\* interface MessageResponse: an object with a boolean `success`
IsMessageResponse(r) ==
  /\ "success" \in DOMAIN r
  /\ r.success \in BOOLEAN

\* a settled promise, as its awaiter sees it
Resolved(v) == [st |-> "resolved", val |-> v]
Rejected(e) == [st |-> "rejected", val |-> e]
Pending == [st |-> "pending", val |-> Void]

\* what the host reports for a sent message: a response value, or a rejection
HostOk(v) == [ok |-> TRUE, val |-> v]
HostErr(e) == [ok |-> FALSE, val |-> e]
HostNone == [ok |-> FALSE, val |-> Void]     \* nothing reported yet

\* what chrome.tabs.query reported to sendToActiveTab
QueryNone == [st |-> "none", tab |-> 0]
QueryGave(tab) == [st |-> "answered", tab |-> tab]
QueryThrew == [st |-> "failed", tab |-> 0]

\* request payloads per kind (MessageTypes[K]["request"]), small samples
PayloadsOf(k) ==
  CASE k = "TOGGLE_EXTENSION" -> {[enabled |-> TRUE], [enabled |-> FALSE]}
    [] k = "UPDATE_SETTINGS" ->
         {[theme |-> "dark"], [enabled |-> FALSE, theme |-> "dark"]}
    [] k = "CONTENT_ACTION" ->
         {[action |-> "highlight", data |-> [timestamp |-> 1]],
          [action |-> "unknown", data |-> [timestamp |-> 1]]}
    [] OTHER -> {Void}

\* chrome.runtime.MessageSender: the tab the message came from, if any
Sender(origin) == [tab |-> origin]

\* the context a caller runs in: caller 1 is a UI surface (popup, options),
\* caller c > 1 is the content script of tab c - 1
CallerTab(c) == IF c - 1 \in Tabs THEN c - 1 ELSE NoTab

\* `error instanceof Error ? error.message : "Unknown error"`
ErrorMessage(error) ==
  IF error.isError THEN error.message ELSE "Unknown error"

\* sendToBackground: `return response` of the try block, or the catch block
sendToBackground(host) ==
  IF host.ok
    THEN Resolved(host.val)
    ELSE Resolved([success |-> FALSE, error |-> ErrorMessage(host.val)])

\* sendToTab without its catch block: the transport failure propagates
sendToTabNoCatch(host) ==
  IF host.ok THEN Resolved(host.val) ELSE Rejected(host.val)

\* sendToTab that keeps waiting after a transport failure
sendToTabHang(host) ==
  IF host.ok THEN Resolved(host.val) ELSE Pending

\* sendToTab: `return response` of the try block, or the catch block
sendToTab(host) ==
  IF host.ok
    THEN Resolved(host.val)
    ELSE Resolved([success |-> FALSE, error |-> ErrorMessage(host.val)])

\* `!tab` in place of `!tab?.id`: a tab object without an id passes
HasTabIdLoose(tab) == tab # NoWindow

\* `!tab?.id` of sendToActiveTab, negated: the query gave a tab that has an id
HasTabId(tab) == tab \notin {NoWindow, NoTab}

\* sendToActiveTab's early return
NoActiveTab == Resolved([success |-> FALSE, error |-> "No active tab found"])

\* the adapter through which a call was made completes with the host's report
AdapterReturn(api, host) ==
  IF api = "sendToBackground" THEN sendToBackground(host) ELSE sendToTab(host)

\* createMessageHandler: `handlers[type]`
HandlerOf(table, type) == table[type]

\* a .then callback that drops the handler's value
ThenResponseNoData(data) == [success |-> TRUE]

\* createMessageHandler: the .then callback's argument to sendResponse
ThenResponse(data) == [success |-> TRUE, data |-> data]

\* a .catch callback that drops the error's message
CatchResponseGeneric(error) == [success |-> FALSE, error |-> "Unknown error"]

\* createMessageHandler: the .catch callback's argument to sendResponse
CatchResponse(error) == [success |-> FALSE, error |-> ErrorMessage(error)]

\* a handler supplied by a user of createMessageHandler: what it computes
\* from its two arguments when it completes normally
StubResult(payload, sender) == [echo |-> payload, from |-> sender.tab]

\* the ways such a handler can behave when invoked
StubOutcomes == {"return", "throw", "promise"}

\* handler tables given to createMessageHandler (Partial<...>)
StubTable(S) == [k \in MessageType |-> IF k \in S THEN "stub" ELSE "none"]
PartialTable == StubTable({"GET_TAB_INFO", "TOGGLE_EXTENSION", "CONTENT_ACTION"})

\* content/index.ts handleContentAction
handleContentAction(payload) ==
  CASE payload.action = "highlight" -> [highlighted |-> TRUE]
    [] payload.action = "inject" -> [injected |-> TRUE]
    [] OTHER -> [null |-> TRUE]

\* content/index.ts: the onMessage listener's argument to sendResponse
ContentListener(type, payload, tab) ==
  CASE type = "CONTENT_ACTION" ->
         [success |-> TRUE, data |-> handleContentAction(payload)]
    [] type = "EXTENSION_STATE_CHANGED" -> [success |-> TRUE]
    [] type = "GET_TAB_INFO" ->
         [success |-> TRUE, data |-> [url |-> tab, title |-> tab]]
    [] OTHER -> [success |-> FALSE, error |-> "Unknown message type"]

\* ---------------------------------------------------------- settings store
\* `undefined`: the key is not in the store
Absent == [absent |-> TRUE]

\* storage.ts defaultSettings
defaultSettings == [enabled |-> TRUE, theme |-> "system", notifications |-> TRUE]

\* storage.ts initializeStorage: the userData record it writes
defaultUserData == [lastVisit |-> "now", visitCount |-> 0]

\* chrome.storage.local.clear()
EmptyStore == [settings |-> Absent, userData |-> Absent]

\* storage.ts getAllStorage: `chrome.storage.local.get(null)`, the mapping of
\* the keys that are present
getAllStorage(st) ==
  [k \in {key \in DOMAIN st : st[key] # Absent} |-> st[k]]

\* the mapping with no key
EmptyMapping == [k \in {} |-> Absent]

\* history: the keys present in a store
KeysOf(st) == DOMAIN getAllStorage(st)

\* a fallback to the empty object: `?? {}`
OrDefaultEmpty(settings) ==
  IF settings = Absent THEN [f \in {} |-> Absent] ELSE settings

\* `(await getStorage("settings")) ?? defaultSettings`
OrDefault(settings) == IF settings = Absent THEN defaultSettings ELSE settings

\* a GET_SETTINGS that returns what the store gave, with no fallback
GetSettingsRaw(settings) == settings

\* GET_SETTINGS: `return settings ?? defaultSettings`
GetSettings(settings) == OrDefault(settings)

\* the spread written the other way round: current values win
SpreadMergeReversed(currentSettings, payload) ==
  [f \in DOMAIN currentSettings \cup DOMAIN payload |->
     IF f \in DOMAIN currentSettings THEN currentSettings[f] ELSE payload[f]]

\* `{ ...currentSettings, ...payload }`
SpreadMerge(currentSettings, payload) ==
  [f \in DOMAIN currentSettings \cup DOMAIN payload |->
     IF f \in DOMAIN payload THEN payload[f] ELSE currentSettings[f]]

\* a toggle that starts from the defaults instead of the stored record
ToggleRecordDefaults(currentSettings, payload) ==
  SpreadMerge(defaultSettings, [enabled |-> payload.enabled])

\* TOGGLE_EXTENSION: `{ ...currentSettings, enabled: payload.enabled }`
ToggleRecord(currentSettings, payload) ==
  SpreadMerge(currentSettings, [enabled |-> payload.enabled])

\* background/index.ts GET_TAB_INFO: `tab?.url ?? ""`, `tab?.title ?? ""`
GetTabInfo(sender) ==
  IF sender.tab = NoTab
    THEN [url |-> "", title |-> ""]
    ELSE [url |-> <<"url", sender.tab>>, title |-> <<"title", sender.tab>>]

\* background/index.ts CONTENT_ACTION
ContentAction(payload) == [success |-> TRUE, result |-> payload.data]

\* background/index.ts: the table passed to createMessageHandler
BackgroundTable == [k \in MessageType |-> "bg"]

\* chrome.tabs.query({}): every tab, one of them without an id
AllTabs == <<NoTab>> \o [i \in 1..MaxTabs |-> i]

\* the next position after i in the tab list whose tab passes `if (tab.id)`
RECURSIVE NextWithId(_)
NextWithId(i) ==
  IF i + 1 > Len(AllTabs) THEN 0
  ELSE IF AllTabs[i + 1] # NoTab THEN i + 1 ELSE NextWithId(i + 1)

\* history: no expectation about the store is recorded
NoExpectation ==
  [live |-> FALSE, by |-> "none", val |-> defaultSettings, p |-> Void,
   keys |-> {}]

\* history: no lifecycle event has been handled
NoLife ==
  [event |-> "none", before |-> EmptyStore, done |-> FALSE, runs |-> 0,
   first |-> EmptyStore, origin |-> EmptyStore]

\* `null`: the initial value of a controller's `settings` state
Null == [null |-> TRUE]

\* no UI surface is open
NoPage ==
  [surface |-> "none", settings |-> Null, tabInfo |-> Null, saving |-> FALSE,
   saved |-> FALSE,
   pc |-> "idle",       \* the await its running async function is suspended at
   closure |-> Null,    \* the `settings` that function captured when it was called
   last |-> "none"]     \* history: the function that completed last

\* chrome.storage.onChanged with no listener and no event on its way
NoChanged == [on |-> {}, queue |-> <<>>]

\* history: no handler has written the settings
NoWrite == [by |-> 0, type |-> "none", cur |-> Absent, payload |-> Void]

\* history: no change of the store has been followed
NoHeard ==
  [flying |-> <<>>, to |-> {}, called |-> [cb \in Callbacks |-> 0]]

\* ------------------------------------------------------------------ state
VARIABLES
  handlers,    \* the table passed to createMessageHandler
  calls,       \* per caller: its current adapter call and the message's fate
  listening,   \* tabs whose content script has registered its listener
  focus,       \* what the active-tab query matches now
  store,       \* chrome.storage.local: the value under each key
  boot,        \* the lifecycle listener's initializeStorage run
  extActive,   \* per tab: document.body has the class extension-active
  expect,      \* history: the last write to the store and what it should leave
  life,        \* history: the last lifecycle event and the store around it
  listeners,   \* the tables of the listeners added by createMessageHandler calls
  page,        \* the Popup or Options controller: its React state and position
  changed,     \* chrome.storage.onChanged: its listeners and the events on their way
  wrote,       \* history: the last handler that wrote the settings
  heard        \* history: the store changes and the callbacks they reached

settingsVars == <<store, boot, extActive, expect>>
pageVars == <<page, changed, wrote, heard>>
vars ==
  <<handlers, calls, listening, focus, store, boot, extActive, expect, life,
    listeners, page, changed, wrote, heard>>

NewCall(api, type, payload, origin, tab, pc) ==
  [api |-> api, type |-> type, payload |-> payload, origin |-> origin,
   tab |-> tab, pc |-> pc,
   sent |-> IF pc = "transit" /\ api # "sendToBackground" THEN <<tab>> ELSE <<>>,
   out |-> Pending,
   host |-> HostNone,     \* the host's report for the message sent
   q |-> QueryNone,       \* the host's report for the active-tab query
   ret |-> "none",        \* what the router's listener returned
   invoked |-> <<>>,      \* the arguments of each handler invocation
   h |-> "none",          \* state of the promise Promise.resolve(handler(..))
   hval |-> Void,         \* its value or rejection reason
   reacted |-> FALSE,     \* a .then/.catch callback has run
   nresp |-> 0,           \* calls of sendResponse
   resp |-> Void,         \* the response on its way back
   lost |-> FALSE,        \* the destination context was torn down mid-call
   hpc |-> "none",        \* where the background handler is suspended
   cur |-> Void,          \* what its getStorage("settings") gave
   idx |-> 0,             \* fan-out: position in the list of tabs
   pre |-> Void,          \* history: the stored settings when it read them
   saw |-> Void,          \* history: the write its read of the settings followed
   flip |-> FALSE,        \* history: its write changed the stored enabled flag
   fan |-> <<>>,          \* the EXTENSION_STATE_CHANGED messages it has sent
   failed |-> {},         \* history: the tabs whose notification was rejected
   who |-> <<>>,          \* the listeners whose handler the message invoked
   told |-> {}]           \* the listeners whose callback has called sendResponse

IdleCall == [NewCall("none", "none", Void, NoTab, NoTab, "idle") EXCEPT !.out = Resolved(Void)]

Free(c) == calls[c].pc \in {"idle", "done"}

Set(c, r) == calls' = [calls EXCEPT ![c] = r]

\* ---------------------------------------------------------------- adapters
\* sendToBackground(type, payload): chrome.runtime.sendMessage is called
CallSendToBackground(c, type, payload) ==
  /\ Free(c)
  /\ Set(c, NewCall("sendToBackground", type, payload, CallerTab(c), NoTab, "transit"))
  /\ UNCHANGED <<pageVars, listeners, life, handlers, listening, focus, settingsVars>>

\* sendToTab(tabId, type, payload): chrome.tabs.sendMessage is called
CallSendToTab(c, tabId, type, payload) ==
  /\ Free(c)
  /\ Set(c, NewCall("sendToTab", type, payload, NoTab, tabId, "transit"))
  /\ UNCHANGED <<pageVars, listeners, life, handlers, listening, focus, settingsVars>>

\* sendToActiveTab(type, payload): chrome.tabs.query is called
CallSendToActiveTab(c, type, payload) ==
  /\ Free(c)
  /\ Set(c, NewCall("sendToActiveTab", type, payload, NoTab, NoTab, "query"))
  /\ UNCHANGED <<pageVars, listeners, life, handlers, listening, focus, settingsVars>>

\* the query resolves; sendToActiveTab returns early or calls sendToTab
QueryAnswered(c) ==
  /\ calls[c].pc = "query"
  /\ IF HasTabId(focus)
       THEN Set(c, [calls[c] EXCEPT !.pc = "transit", !.q = QueryGave(focus),
                                    !.tab = focus, !.sent = Append(@, focus)])
       ELSE Set(c, [calls[c] EXCEPT !.pc = "done", !.q = QueryGave(focus),
                                    !.out = NoActiveTab])
  /\ UNCHANGED <<pageVars, listeners, life, handlers, listening, focus, settingsVars>>

\* the query rejects: the await in sendToActiveTab throws, outside any try
QueryFails(c) ==
  /\ calls[c].pc = "query"
  /\ Set(c, [calls[c] EXCEPT !.pc = "done", !.q = QueryThrew,
                               !.out = Rejected(Err(QueryFailed))])
  /\ UNCHANGED <<pageVars, listeners, life, handlers, listening, focus, settingsVars>>

\* chrome.tabs.sendMessage reaches the tab's content script, whose listener
\* answers synchronously
TabDelivers(c) ==
  /\ calls[c].pc = "transit"
  /\ calls[c].api # "sendToBackground"
  /\ calls[c].tab \in listening
  /\ Set(c, [calls[c] EXCEPT
         !.pc = "reply",
         !.resp = ContentListener(calls[c].type, calls[c].payload, calls[c].tab)])
  /\ UNCHANGED <<pageVars, listeners, life, handlers, listening, focus, settingsVars>>

\* chrome.tabs.sendMessage finds no listener in the tab and rejects
TabUnreachable(c) ==
  /\ calls[c].pc = "transit"
  /\ calls[c].api # "sendToBackground"
  /\ calls[c].tab \notin listening
  /\ Set(c, [calls[c] EXCEPT
         !.pc = "done", !.host = HostErr(Err(NoReceiver)),
         !.out = AdapterReturn(calls[c].api, HostErr(Err(NoReceiver)))])
  /\ UNCHANGED <<pageVars, listeners, life, handlers, listening, focus, settingsVars>>

\* chrome.runtime.sendMessage finds no receiving end and rejects
TransportFails(c) ==
  /\ calls[c].pc = "transit"
  /\ calls[c].api = "sendToBackground"
  /\ Set(c, [calls[c] EXCEPT
         !.pc = "done", !.host = HostErr(Err(NoReceiver)),
         !.out = AdapterReturn(calls[c].api, HostErr(Err(NoReceiver)))])
  /\ UNCHANGED <<pageVars, listeners, life, handlers, listening, focus, settingsVars>>

\* the response travels back and the awaiting adapter returns it
ResponseArrives(c) ==
  /\ calls[c].pc = "reply"
  /\ Set(c, [calls[c] EXCEPT
         !.pc = "done", !.host = HostOk(calls[c].resp),
         !.out = AdapterReturn(calls[c].api, HostOk(calls[c].resp))])
  /\ UNCHANGED <<pageVars, listeners, life, handlers, listening, focus, settingsVars>>

\* the channel closes with no response: the host settles the sender's
\* promise with undefined or with an error, depending on how it closed
PortClosed(c) ==
  /\ calls[c].pc = "noreply"
  /\ \E host \in {HostOk(Undefined), HostErr(Err(PortClosedMsg))} :
       Set(c, [calls[c] EXCEPT
           !.pc = "done", !.host = host,
           !.out = AdapterReturn(calls[c].api, host)])
  /\ UNCHANGED <<pageVars, listeners, life, handlers, listening, focus, settingsVars>>

\* ------------------------------------------------------------------ router
InBackground(c) ==
  /\ calls[c].pc = "transit"
  /\ calls[c].api = "sendToBackground"

\* a listener that answers an unknown kind itself instead of returning false
ListenerNoHandlerReplies(c) ==
  /\ InBackground(c)
  /\ HandlerOf(handlers, calls[c].type) = "none"
  /\ Set(c, [calls[c] EXCEPT !.pc = "reply", !.ret = "false", !.nresp = @ + 1,
         !.resp = [success |-> FALSE, error |-> "Unknown message type"]])
  /\ UNCHANGED <<pageVars, listeners, life, handlers, listening, focus, settingsVars>>

\* the listener of createMessageHandler, `handler` undefined: return false
ListenerNoHandler(c) ==
  /\ InBackground(c)
  /\ HandlerOf(handlers, calls[c].type) = "none"
  /\ Set(c, [calls[c] EXCEPT !.pc = "noreply", !.ret = "false"])
  /\ UNCHANGED <<pageVars, listeners, life, handlers, listening, focus, settingsVars>>

\* the listener of createMessageHandler, `handler` defined:
\* Promise.resolve(handler(payload, sender)).then(..).catch(..); return true
\* A handler that throws synchronously throws out of the listener, before
\* Promise.resolve is reached.
ListenerInvokes(c, outcome) ==
  /\ InBackground(c)
  /\ HandlerOf(handlers, calls[c].type) = "stub"
  /\ LET args == [payload |-> calls[c].payload, sender |-> Sender(calls[c].origin)]
         call == [calls[c] EXCEPT !.invoked = Append(@, args)]
     IN CASE outcome = "return" ->
               Set(c, [call EXCEPT !.pc = "listening", !.ret = "true",
                        !.h = "fulfilled",
                        !.hval = StubResult(args.payload, args.sender)])
          [] outcome = "promise" ->
               Set(c, [call EXCEPT !.pc = "listening", !.ret = "true",
                        !.h = "pending"])
          [] OTHER ->
               Set(c, [call EXCEPT !.pc = "noreply", !.ret = "threw",
                        !.h = "threw", !.hval = Err("boom")])
  /\ UNCHANGED <<pageVars, listeners, life, handlers, listening, focus, settingsVars>>

\* the promise a handler returned settles
HandlerSettles(c) ==
  /\ calls[c].pc = "listening"
  /\ calls[c].h = "pending"
  /\ LET args == calls[c].invoked[1]
     IN \E r \in {Resolved(StubResult(args.payload, args.sender)),
                  Rejected(Err("boom")), Rejected(NonError)} :
          Set(c, [calls[c] EXCEPT
              !.h = IF r.st = "resolved" THEN "fulfilled" ELSE "rejected",
              !.hval = r.val])
  /\ UNCHANGED <<pageVars, listeners, life, handlers, listening, focus, settingsVars>>

\* a .then callback that calls sendResponse a second time
ThenCallbackTwice(c) ==
  /\ calls[c].pc = "listening"
  /\ calls[c].h = "fulfilled"
  /\ ~calls[c].reacted
  /\ Set(c, [calls[c] EXCEPT !.reacted = TRUE, !.nresp = @ + 2, !.pc = "reply",
                               !.resp = [success |-> TRUE, data |-> calls[c].hval]])
  /\ UNCHANGED <<pageVars, listeners, life, handlers, listening, focus, settingsVars>>

\* .then((data) => sendResponse({ success: true, data }))
ThenCallback(c) ==
  /\ calls[c].pc = "listening"
  /\ calls[c].h = "fulfilled"
  /\ ~calls[c].reacted
  /\ Set(c, [calls[c] EXCEPT !.reacted = TRUE, !.nresp = @ + 1, !.pc = "reply",
                               !.resp = ThenResponse(calls[c].hval)])
  /\ UNCHANGED <<pageVars, listeners, life, handlers, listening, focus, settingsVars>>

\* .catch((error) => sendResponse({ success: false, error: ... }))
CatchCallback(c) ==
  /\ calls[c].pc = "listening"
  /\ calls[c].h = "rejected"
  /\ ~calls[c].reacted
  /\ Set(c, [calls[c] EXCEPT !.reacted = TRUE, !.nresp = @ + 1, !.pc = "reply",
                               !.resp = CatchResponse(calls[c].hval)])
  /\ UNCHANGED <<pageVars, listeners, life, handlers, listening, focus, settingsVars>>

\* the background service worker is terminated: every handler still running
\* in it is gone and the host closes the channels it kept open
WorkerTerminated ==
  /\ \E c \in Callers : calls[c].pc = "listening"
  /\ calls' = [c \in Callers |->
                 IF calls[c].pc = "listening"
                   THEN [calls[c] EXCEPT !.pc = "noreply", !.lost = TRUE,
                                         !.h = "none", !.hval = Void]
                   ELSE calls[c]]
  /\ UNCHANGED <<pageVars, listeners, life, handlers, listening, focus, settingsVars>>

\* ---------------------------------------------------------------- registry
\* what the handler given in the i-th createMessageHandler call returns
StubResultOf(i, payload, sender) ==
  [handler |-> i, value |-> StubResult(payload, sender)]

\* createMessageHandler(handlers): chrome.runtime.onMessage.addListener is
\* called with a new listener closed over the table
CreateMessageHandler(S) ==
  /\ Len(listeners) < MaxListeners
  /\ listeners' = Append(listeners, StubTable(S))
  /\ UNCHANGED <<pageVars, life, handlers, calls, listening, focus, settingsVars>>

\* the listeners, in the order they were added, that have a handler for a kind
HandlingListeners(type) ==
  SelectSeq([i \in 1..Len(listeners) |-> i],
            LAMBDA i : HandlerOf(listeners[i], type) # "none")

\* the host dispatches the message to every listener that was added: each
\* one that finds a handler invokes it and returns true, the others return
\* false
ListenersRun(c) ==
  /\ InBackground(c)
  /\ listeners # <<>>
  /\ LET args == [payload |-> calls[c].payload, sender |-> Sender(calls[c].origin)]
         who == HandlingListeners(calls[c].type)
     IN IF who = <<>>
          THEN Set(c, [calls[c] EXCEPT !.pc = "noreply", !.ret = "false"])
          ELSE Set(c, [calls[c] EXCEPT
                   !.pc = "listening", !.ret = "true", !.h = "pending",
                   !.who = who, !.invoked = [k \in 1..Len(who) |-> args]])
  /\ UNCHANGED <<pageVars, listeners, life, handlers, listening, focus, settingsVars>>

\* the promise of listener i's handler resolves and its .then callback calls
\* sendResponse: the first call answers the sender, the host ignores a later
\* one
ListenerAnswers(c, i) ==
  /\ calls[c].pc \in {"listening", "reply", "done"}
  /\ \E k \in DOMAIN calls[c].who : calls[c].who[k] = i
  /\ i \notin calls[c].told
  /\ LET args == calls[c].invoked[1]
         data == StubResultOf(i, args.payload, args.sender)
         call == [calls[c] EXCEPT !.told = @ \cup {i}, !.nresp = @ + 1]
     IN IF calls[c].pc = "listening"
          THEN Set(c, [call EXCEPT !.pc = "reply", !.reacted = TRUE,
                                   !.h = "fulfilled", !.hval = data,
                                   !.resp = ThenResponse(data)])
          ELSE Set(c, call)
  /\ UNCHANGED <<pageVars, listeners, life, handlers, listening, focus, settingsVars>>

\* ------------------------------------------------- background controller
\* storage.ts getStorage: `result[key]`
getStorage(st, key) == st[key]

\* the handler of call c is suspended at the await named by `at`
Suspended(c, at) ==
  /\ calls[c].pc = "listening"
  /\ calls[c].h = "pending"
  /\ calls[c].hpc = at

\* history: the record a write of the fields p is to leave, every field of p with
\* p's value and every other field as it was (the default when there was none)
UpdateExpectation(before, p) ==
  LET b == IF before = Absent THEN defaultSettings ELSE before
  IN [enabled |-> IF "enabled" \in DOMAIN p THEN p.enabled ELSE b.enabled,
      theme |-> IF "theme" \in DOMAIN p THEN p.theme ELSE b.theme,
      notifications |->
        IF "notifications" \in DOMAIN p THEN p.notifications ELSE b.notifications]

\* the listener of createMessageHandler with the background's table: the
\* handler, an async function, runs up to its first await
ListenerBackground(c) ==
  /\ InBackground(c)
  /\ HandlerOf(handlers, calls[c].type) = "bg"
  /\ LET args == [payload |-> calls[c].payload, sender |-> Sender(calls[c].origin)]
         call == [calls[c] EXCEPT !.invoked = Append(@, args),
                                  !.pc = "listening", !.ret = "true"]
     IN CASE calls[c].type = "GET_TAB_INFO" ->
               Set(c, [call EXCEPT !.h = "fulfilled",
                                   !.hval = GetTabInfo(args.sender)])
          [] calls[c].type = "CONTENT_ACTION" ->
               Set(c, [call EXCEPT !.h = "fulfilled",
                                   !.hval = ContentAction(args.payload)])
          [] OTHER ->
               Set(c, [call EXCEPT !.h = "pending", !.hpc = "get"])
  /\ UNCHANGED <<pageVars, listeners, life, handlers, listening, focus, settingsVars>>

\* `await getStorage("settings")` resolves in GET_SETTINGS, UPDATE_SETTINGS
\* or TOGGLE_EXTENSION; GET_SETTINGS returns `settings ?? defaultSettings`
HandlerReads(c) ==
  /\ Suspended(c, "get")
  /\ LET settings == getStorage(store, "settings")
     IN IF calls[c].type = "GET_SETTINGS"
          THEN Set(c, [calls[c] EXCEPT !.cur = settings,
                         !.saw = [by |-> expect.by, p |-> expect.p],
                         !.hpc = "none", !.h = "fulfilled",
                         !.hval = GetSettings(settings)])
          ELSE Set(c, [calls[c] EXCEPT !.cur = settings, !.hpc = "set",
                         !.pre = store.settings])
  /\ UNCHANGED <<pageVars, listeners, life, handlers, listening, focus, settingsVars>>

\* a storage operation awaited by a handler rejects: so does the handler
HandlerStorageFails(c) ==
  /\ Suspended(c, "get") \/ Suspended(c, "set")
  /\ Set(c, [calls[c] EXCEPT !.hpc = "none", !.h = "rejected",
                               !.hval = Err(StorageFailed)])
  /\ UNCHANGED <<pageVars, listeners, life, handlers, listening, focus, settingsVars>>

\* a write that merges the payload into the record the store holds at the
\* write, not into the one the handler read
HandlerWritesFresh(c) ==
  /\ Suspended(c, "set")
  /\ store' = [store EXCEPT
        !.settings =
          IF calls[c].type = "UPDATE_SETTINGS"
            THEN SpreadMerge(OrDefault(store.settings), calls[c].payload)
            ELSE ToggleRecord(OrDefault(store.settings), calls[c].payload)]
  /\ expect' = NoExpectation
  /\ IF calls[c].type = "UPDATE_SETTINGS"
       THEN Set(c, [calls[c] EXCEPT !.hpc = "none", !.h = "fulfilled",
                                    !.hval = [success |-> TRUE]])
       ELSE Set(c, [calls[c] EXCEPT !.hpc = "tabs"])
  /\ UNCHANGED <<listeners, life, handlers, listening, focus, boot, extActive>>

\* `await setStorage("settings", {...})` resolves in UPDATE_SETTINGS, which
\* returns, or in TOGGLE_EXTENSION, which goes on to chrome.tabs.query({})
HandlerWrites(c) ==
  /\ Suspended(c, "set")
  /\ store' = [store EXCEPT
        !.settings =
          IF calls[c].type = "UPDATE_SETTINGS"
            THEN SpreadMerge(OrDefault(calls[c].cur), calls[c].payload)
            ELSE ToggleRecord(OrDefault(calls[c].cur), calls[c].payload)]
  /\ expect' =
       IF store.settings = calls[c].pre
         THEN [live |-> TRUE, by |-> calls[c].type,
               val |-> UpdateExpectation(calls[c].pre, calls[c].payload),
               p |-> calls[c].payload, keys |-> {}]
         ELSE NoExpectation
  /\ LET call == [calls[c] EXCEPT !.flip = /\ store.settings # Absent
                                            /\ store.settings.enabled #
                                                 store'.settings.enabled]
     IN IF calls[c].type = "UPDATE_SETTINGS"
          THEN Set(c, [call EXCEPT !.hpc = "none", !.h = "fulfilled",
                                   !.hval = [success |-> TRUE]])
          ELSE Set(c, [call EXCEPT !.hpc = "tabs"])
  /\ UNCHANGED <<listeners, life, handlers, listening, focus, boot, extActive>>

\* a fan-out that does not await: the messages to all the tabs that are left
\* are sent at once
AfterTabAtOnce(call, i) ==
  IF NextWithId(i) = 0
    THEN [call EXCEPT !.hpc = "none", !.idx = 0, !.h = "fulfilled",
                      !.hval = [success |-> TRUE]]
    ELSE [call EXCEPT
            !.hpc = "notify", !.idx = Len(AllTabs),
            !.fan = @ \o [k \in 1..(Len(AllTabs) - NextWithId(i) + 1) |->
                            [tab |-> AllTabs[NextWithId(i) + k - 1],
                             enabled |-> call.payload.enabled]]]

\* TOGGLE_EXTENSION after the tab at position idx: the next message of the
\* fan-out is sent, or the loop is over and the handler returns
AfterTab(call, i) ==
  IF NextWithId(i) = 0
    THEN [call EXCEPT !.hpc = "none", !.idx = 0, !.h = "fulfilled",
                      !.hval = [success |-> TRUE]]
    ELSE [call EXCEPT !.hpc = "notify", !.idx = NextWithId(i),
                      !.fan = Append(@, [tab |-> AllTabs[NextWithId(i)],
                                         enabled |-> call.payload.enabled])]

\* `await chrome.tabs.query({})` resolves in TOGGLE_EXTENSION
TabsQueried(c) ==
  /\ Suspended(c, "tabs")
  /\ Set(c, AfterTab(calls[c], 0))
  /\ UNCHANGED <<pageVars, listeners, life, handlers, listening, focus, settingsVars>>

\* `await chrome.tabs.query({})` rejects in TOGGLE_EXTENSION
TabsQueryFails(c) ==
  /\ Suspended(c, "tabs")
  /\ Set(c, [calls[c] EXCEPT !.hpc = "none", !.h = "rejected",
                               !.hval = Err(QueryFailed)])
  /\ UNCHANGED <<pageVars, listeners, life, handlers, listening, focus, settingsVars>>

\* EXTENSION_STATE_CHANGED reaches the tab's content script, which runs
\* handleExtensionStateChange and answers; the fan-out goes on
NotifyDelivered(c) ==
  /\ Suspended(c, "notify")
  /\ AllTabs[calls[c].idx] \in listening
  /\ extActive' = [extActive EXCEPT ![AllTabs[calls[c].idx]] = calls[c].payload.enabled]
  /\ Set(c, AfterTab(calls[c], calls[c].idx))
  /\ UNCHANGED <<pageVars, listeners, life, handlers, listening, focus, store, boot, expect>>

\* a fan-out without its try/catch: the rejected sendMessage ends the handler
NotifyFailsAborts(c) ==
  /\ Suspended(c, "notify")
  /\ AllTabs[calls[c].idx] \notin listening
  /\ Set(c, [calls[c] EXCEPT !.failed = @ \cup {AllTabs[calls[c].idx]},
                               !.hpc = "none", !.h = "rejected",
                               !.hval = Err(NoReceiver)])
  /\ UNCHANGED <<pageVars, listeners, life, handlers, listening, focus, settingsVars>>

\* the tab has no listener: sendMessage rejects, the catch block swallows it
NotifyFails(c) ==
  /\ Suspended(c, "notify")
  /\ AllTabs[calls[c].idx] \notin listening
  /\ Set(c, AfterTab([calls[c] EXCEPT !.failed = @ \cup {AllTabs[calls[c].idx]}],
                      calls[c].idx))
  /\ UNCHANGED <<pageVars, listeners, life, handlers, listening, focus, settingsVars>>

\* storage.ts setStorage(key, value): `chrome.storage.local.set({ [key]: value })`
SetStorage(key, value) ==
  /\ store' = [store EXCEPT ![key] = value]
  /\ expect' = NoExpectation
  /\ UNCHANGED <<listeners, life, handlers, calls, listening, focus, boot, extActive>>

\* a reset that removes the settings key only
ClearStorageSettingsOnly ==
  /\ store' = [store EXCEPT !.settings = Absent]
  /\ expect' = [live |-> TRUE, by |-> "clearStorage", val |-> defaultSettings,
                p |-> Void, keys |-> KeysOf(store)]
  /\ UNCHANGED <<listeners, life, handlers, calls, listening, focus, boot, extActive>>

\* storage.ts clearStorage, called by the options page
ClearStorage ==
  /\ store' = EmptyStore
  /\ expect' = [live |-> TRUE, by |-> "clearStorage", val |-> defaultSettings,
                p |-> Void, keys |-> KeysOf(store)]
  /\ UNCHANGED <<listeners, life, handlers, calls, listening, focus, boot, extActive>>

\* an onInstalled listener that runs initializeStorage whatever the reason
OnInstalledAlways(reason) ==
  /\ boot = "idle"
  /\ boot' = "getSettings"
  /\ UNCHANGED <<pageVars, listeners, handlers, calls, listening, focus, store, extActive, expect>>

\* chrome.runtime.onInstalled: initializeStorage on a fresh install, a log
\* line on an update
OnInstalled(reason) ==
  /\ boot = "idle"
  /\ boot' = IF reason = "install" THEN "getSettings" ELSE boot
  /\ UNCHANGED <<pageVars, listeners, handlers, calls, listening, focus, store, extActive, expect>>

\* an onStartup listener that only logs
OnStartupSkips ==
  /\ boot = "idle"
  /\ boot' = boot
  /\ UNCHANGED <<pageVars, listeners, handlers, calls, listening, focus, store, extActive, expect>>

\* chrome.runtime.onStartup: initializeStorage
OnStartup ==
  /\ boot = "idle"
  /\ boot' = "getSettings"
  /\ UNCHANGED <<pageVars, listeners, handlers, calls, listening, focus, store, extActive, expect>>

\* initializeStorage without its `if (!settings)`: the defaults are written
\* whatever the store holds
InitReadsSettingsAlways ==
  /\ boot = "getSettings"
  /\ boot' = "setSettings"
  /\ UNCHANGED <<pageVars, listeners, handlers, calls, listening, focus, store, extActive, expect>>

\* initializeStorage: `await getStorage("settings")`, then `if (!settings)`
InitReadsSettings ==
  /\ boot = "getSettings"
  /\ boot' = IF getStorage(store, "settings") = Absent
               THEN "setSettings" ELSE "getUserData"
  /\ UNCHANGED <<pageVars, listeners, handlers, calls, listening, focus, store, extActive, expect>>

\* initializeStorage: `await setStorage("settings", defaultSettings)`
InitWritesSettings ==
  /\ boot = "setSettings"
  /\ store' = [store EXCEPT !.settings = defaultSettings]
  /\ expect' = NoExpectation
  /\ boot' = "getUserData"
  /\ UNCHANGED <<listeners, handlers, calls, listening, focus, extActive>>

\* initializeStorage: `await getStorage("userData")`, then `if (!userData)`
InitReadsUserData ==
  /\ boot = "getUserData"
  /\ boot' = IF getStorage(store, "userData") = Absent
               THEN "setUserData" ELSE "idle"
  /\ UNCHANGED <<pageVars, listeners, handlers, calls, listening, focus, store, extActive, expect>>

\* initializeStorage: `await setStorage("userData", {...})`
InitWritesUserData ==
  /\ boot = "setUserData"
  /\ store' = [store EXCEPT !.userData = defaultUserData]
  /\ expect' = NoExpectation
  /\ boot' = "idle"
  /\ UNCHANGED <<listeners, handlers, calls, listening, focus, extActive>>

\* a storage operation awaited by initializeStorage rejects: the lifecycle
\* listener ends there
InitStorageFails ==
  /\ boot # "idle"
  /\ boot' = "idle"
  /\ UNCHANGED <<pageVars, listeners, handlers, calls, listening, focus, store, extActive, expect>>

\* ------------------------------------------------- storage change events
\* the function the Options page passes to onStorageChange in its effect
OptionsCallback == 1

\* the `changes` argument of a change event, `{ key: { oldValue, newValue } }`
\* for every key whose value is not what it was; a removed key has no newValue
StorageChanges(before, after) ==
  [k \in {key \in DOMAIN before : before[key] # after[key]} |->
     [oldValue |-> before[k], newValue |-> after[k]]]

\* storage.ts onStorageChange(callback):
\* `chrome.storage.onChanged.addListener(callback)`
OnStorageChange(cb) ==
  /\ changed' = [changed EXCEPT !.on = @ \cup {cb}]
  /\ UNCHANGED <<page, wrote, listeners, life, handlers, calls, listening, focus,
                 settingsVars>>

\* a handle that removes every listener of the event
UnsubscribeAll(cb) ==
  /\ cb \in changed.on
  /\ changed' = [changed EXCEPT !.on = {}]
  /\ UNCHANGED <<page, wrote, listeners, life, handlers, calls, listening, focus,
                 settingsVars>>

\* the handle onStorageChange returned:
\* `() => chrome.storage.onChanged.removeListener(callback)`
Unsubscribe(cb) ==
  /\ cb \in changed.on
  /\ changed' = [changed EXCEPT !.on = @ \ {cb}]
  /\ UNCHANGED <<page, wrote, listeners, life, handlers, calls, listening, focus,
                 settingsVars>>

\* the host, at a write of the store: when a value is not what it was and the
\* event has a listener, a change event sets out for the listening context
EventQueued ==
  changed' =
    IF DOMAIN StorageChanges(store, store') = {} \/ changed.on = {}
      THEN changed
      ELSE [changed EXCEPT !.queue = Append(@, StorageChanges(store, store'))]

\* the oldest event arrives: the host calls every callback that is a listener
\* now.  The Options callback: `if (changes["settings"])
\* setSettings(changes["settings"].newValue)`
ChangeDelivered ==
  /\ changed.queue # <<>>
  /\ changed' = [changed EXCEPT !.queue = Tail(@)]
  /\ page' =
       IF /\ page.surface = "options"
          /\ OptionsCallback \in changed.on
          /\ "settings" \in DOMAIN Head(changed.queue)
         THEN [page EXCEPT !.settings = Head(changed.queue)["settings"].newValue]
         ELSE page
  /\ UNCHANGED <<wrote, listeners, life, handlers, calls, listening, focus,
                 settingsVars>>

\* ------------------------------------------------------ popup and options
\* the context of the UI surface that is open
PageCaller == 1

\* `!settings` is false
Truthy(settings) == settings \notin {Null, Absent}

\* loadSettings and loadData after `await sendToBackground("GET_SETTINGS")`:
\* `if (response.success && response.data) setSettings(response.data)`; a
\* response without `success` makes the test throw into the catch block
Loaded(settings, out) ==
  IF /\ out.st = "resolved"
     /\ IsMessageResponse(out.val)
     /\ out.val.success
     /\ "data" \in DOMAIN out.val
    THEN out.val.data
    ELSE settings

\* what the Options controls pass on: `{ [key]: value }`
OptionsEdits ==
  {[enabled |-> TRUE], [enabled |-> FALSE], [theme |-> "dark"]}

\* the effect of Popup and of Options: loadData() / loadSettings() run up to
\* their await of GET_SETTINGS; Options then registers its storage listener
Mount(surface) ==
  /\ page.surface = "none"
  /\ Free(PageCaller)
  /\ page' = [NoPage EXCEPT !.surface = surface, !.pc = "load"]
  /\ Set(PageCaller,
         NewCall("sendToBackground", "GET_SETTINGS", Void, NoTab, NoTab, "transit"))
  /\ changed' = IF surface = "options"
                  THEN [changed EXCEPT !.on = @ \cup {OptionsCallback}]
                  ELSE changed
  /\ UNCHANGED <<wrote, heard, listeners, life, handlers, listening, focus,
                 settingsVars>>

\* the surface is closed; the clean-up of the Options effect calls the handle
Close ==
  /\ page.surface # "none"
  /\ page.pc = "idle"
  /\ page' = NoPage
  /\ changed' = IF page.surface = "options"
                  THEN [changed EXCEPT !.on = @ \ {OptionsCallback}]
                  ELSE changed
  /\ UNCHANGED <<wrote, heard, listeners, life, handlers, calls, listening, focus,
                 settingsVars>>

\* the first load gets its response: Options is done, Popup goes on to
\* `await chrome.tabs.query({ active: true, currentWindow: true })`
LoadResumes ==
  /\ page.pc = "load"
  /\ calls[PageCaller].pc = "done"
  /\ page' = [page EXCEPT !.settings = Loaded(@, calls[PageCaller].out),
                          !.pc = IF page.surface = "popup" THEN "query" ELSE "idle",
                          !.last = IF page.surface = "popup" THEN @ ELSE "load"]
  /\ UNCHANGED <<changed, wrote, heard, listeners, life, handlers, calls, listening,
                 focus, settingsVars>>

\* Popup loadData: the query resolves, `if (tab) setTabInfo({...})`
PopupTabQueried ==
  /\ page.pc = "query"
  /\ page' = [page EXCEPT
                !.tabInfo = IF HasTabIdLoose(focus)
                              THEN [url |-> <<"url", focus>>,
                                    title |-> <<"title", focus>>]
                              ELSE @,
                !.pc = "idle", !.last = "load"]
  /\ UNCHANGED <<changed, wrote, heard, listeners, life, handlers, calls, listening,
                 focus, settingsVars>>

\* Popup loadData: the query rejects into the catch block
PopupTabQueryFails ==
  /\ page.pc = "query"
  /\ page' = [page EXCEPT !.pc = "idle", !.last = "load"]
  /\ UNCHANGED <<changed, wrote, heard, listeners, life, handlers, calls, listening,
                 focus, settingsVars>>

\* Popup toggleEnabled up to its await:
\* `sendToBackground("TOGGLE_EXTENSION", { enabled: !settings.enabled })`
ToggleEnabled ==
  /\ page.surface = "popup"
  /\ page.pc = "idle"
  /\ Truthy(page.settings)
  /\ page' = [page EXCEPT !.pc = "toggle", !.closure = page.settings,
                          !.last = "none"]
  /\ Set(PageCaller,
         NewCall("sendToBackground", "TOGGLE_EXTENSION",
                 [enabled |-> ~page.settings.enabled], NoTab, NoTab, "transit"))
  /\ UNCHANGED <<changed, wrote, heard, listeners, life, handlers, listening, focus,
                 settingsVars>>

\* Popup toggleEnabled after its await:
\* `if (response.success) setSettings({ ...settings, enabled: newEnabled })`
ToggleResumes ==
  /\ page.pc = "toggle"
  /\ calls[PageCaller].pc = "done"
  /\ page' = [page EXCEPT
                !.settings =
                  IF /\ calls[PageCaller].out.st = "resolved"
                     /\ IsMessageResponse(calls[PageCaller].out.val)
                     /\ calls[PageCaller].out.val.success
                    THEN SpreadMerge(page.closure,
                                     [enabled |-> ~page.closure.enabled])
                    ELSE @,
                !.pc = "idle", !.last = "toggle"]
  /\ UNCHANGED <<changed, wrote, heard, listeners, life, handlers, calls, listening,
                 focus, settingsVars>>

\* Options updateSetting(key, value) up to its await: setSaving(true), the
\* new value is shown at once, `sendToBackground("UPDATE_SETTINGS", {[key]: value})`;
\* the enable switch passes `!settings?.enabled`
UpdateSetting(edit) ==
  /\ page.surface = "options"
  /\ page.pc = "idle"
  /\ ~page.saving
  /\ Truthy(page.settings)
  /\ "enabled" \in DOMAIN edit => edit.enabled = ~page.settings.enabled
  /\ page' = [page EXCEPT !.pc = "update", !.closure = page.settings,
                          !.saving = TRUE,
                          !.settings = SpreadMerge(page.settings, edit),
                          !.last = "none"]
  /\ Set(PageCaller,
         NewCall("sendToBackground", "UPDATE_SETTINGS", edit, NoTab, NoTab,
                 "transit"))
  /\ UNCHANGED <<changed, wrote, heard, listeners, life, handlers, listening, focus,
                 settingsVars>>

\* Options updateSetting after its await: the response is not looked at,
\* setSaved(true); only a rejected call reaches the catch block and its
\* `setSettings(settings)`; finally setSaving(false)
UpdateResumes ==
  /\ page.pc = "update"
  /\ calls[PageCaller].pc = "done"
  /\ page' = IF calls[PageCaller].out.st = "resolved"
               THEN [page EXCEPT !.saved = TRUE, !.saving = FALSE,
                                 !.pc = "idle", !.last = "update"]
               ELSE [page EXCEPT !.settings = page.closure, !.saving = FALSE,
                                 !.pc = "idle", !.last = "update"]
  /\ UNCHANGED <<changed, wrote, heard, listeners, life, handlers, calls, listening,
                 focus, settingsVars>>

\* `setTimeout(() => setSaved(false), 2000)`
SavedExpires ==
  /\ page.saved
  /\ page' = [page EXCEPT !.saved = FALSE]
  /\ UNCHANGED <<changed, wrote, heard, listeners, life, handlers, calls, listening,
                 focus, settingsVars>>

\* Options handleResetSettings, confirmed, up to `await clearStorage()`
HandleResetSettings ==
  /\ page.surface = "options"
  /\ page.pc = "idle"
  /\ ~page.saving
  /\ page' = [page EXCEPT !.pc = "clear", !.saving = TRUE, !.last = "none"]
  /\ UNCHANGED <<changed, wrote, heard, listeners, life, handlers, calls, listening,
                 focus, settingsVars>>

\* `await clearStorage()` resolves: the store is empty
ResetCleared ==
  /\ page.pc = "clear"
  /\ Len(changed.queue) < MaxChanges
  /\ ClearStorage
  /\ EventQueued
  /\ page' = [page EXCEPT !.pc = "cleared"]
  /\ UNCHANGED <<wrote, heard>>

\* `await clearStorage()` rejects into the catch block; finally setSaving(false)
ResetClearFails ==
  /\ page.pc = "clear"
  /\ page' = [page EXCEPT !.pc = "idle", !.saving = FALSE, !.last = "failed"]
  /\ UNCHANGED <<changed, wrote, heard, listeners, life, handlers, calls, listening,
                 focus, settingsVars>>

\* handleResetSettings goes on: loadSettings() runs up to its await
ResetLoads ==
  /\ page.pc = "cleared"
  /\ Free(PageCaller)
  /\ page' = [page EXCEPT !.pc = "reload"]
  /\ Set(PageCaller,
         NewCall("sendToBackground", "GET_SETTINGS", Void, NoTab, NoTab, "transit"))
  /\ UNCHANGED <<changed, wrote, heard, listeners, life, handlers, listening, focus,
                 settingsVars>>

\* loadSettings gets its response and returns; handleResetSettings goes on:
\* setSaved(true), finally setSaving(false)
ResetLoadResumes ==
  /\ page.pc = "reload"
  /\ calls[PageCaller].pc = "done"
  /\ page' = [page EXCEPT !.settings = Loaded(@, calls[PageCaller].out),
                          !.saved = TRUE, !.saving = FALSE, !.pc = "idle",
                          !.last = "reset"]
  /\ UNCHANGED <<changed, wrote, heard, listeners, life, handlers, calls, listening,
                 focus, settingsVars>>

\* --------------------------------------------------------- content script
\* the context of tab t's content script
ScriptOf(t) == t + 1

\* the tabs whose content script is followed
ScriptTabs == {t \in Tabs : ScriptOf(t) \in Callers}

\* content/index.ts, injected into tab t: the listener is registered, then
\* init() runs up to `await chrome.runtime.sendMessage({ type: "GET_SETTINGS" })`.
\* The message is sent without the adapter; its fate is followed in the same
\* record, of which init reads the host's own report.
ContentLoads(t) ==
  /\ t \notin listening
  /\ calls[ScriptOf(t)].pc = "idle"
  /\ listening' = listening \cup {t}
  /\ Set(ScriptOf(t),
         NewCall("sendToBackground", "GET_SETTINGS", Void, t, NoTab, "transit"))
  /\ UNCHANGED <<pageVars, listeners, life, handlers, focus, settingsVars>>

\* init after its await:
\* `if (response?.success && response.data?.enabled) classList.add("extension-active")`;
\* a rejected sendMessage goes to the catch block
ContentInitResumes(t) ==
  /\ calls[ScriptOf(t)].pc = "done"
  /\ LET host == calls[ScriptOf(t)].host
     IN extActive' =
          IF /\ host.ok
             /\ IsMessageResponse(host.val)
             /\ host.val.success
             /\ "data" \in DOMAIN host.val
             /\ "enabled" \in DOMAIN host.val.data
             /\ host.val.data.enabled
            THEN [extActive EXCEPT ![t] = TRUE]
            ELSE extActive
  /\ Set(ScriptOf(t), [calls[ScriptOf(t)] EXCEPT !.pc = "over"])
  /\ UNCHANGED <<pageVars, listeners, life, handlers, listening, focus, store, boot,
                 expect>>

\* ------------------------------------------------------------- environment
\* a page loads (or unloads) its content script
ContentScriptToggles(t) ==
  /\ listening' = IF t \in listening THEN listening \ {t} ELSE listening \cup {t}
  /\ UNCHANGED <<pageVars, listeners, life, handlers, calls, focus, settingsVars>>

\* the user focuses another tab or window
FocusChanges(f) ==
  /\ f # focus
  /\ focus' = f
  /\ UNCHANGED <<pageVars, listeners, life, handlers, calls, listening, settingsVars>>

Foci == Tabs \cup {NoTab, NoWindow}

\* ----------------------------------------------------------- specification
\* The router on its own: createMessageHandler over a partial table of
\* arbitrary handlers, called through sendToBackground.
InitRouter ==
  /\ handlers = PartialTable
  /\ calls = [c \in Callers |-> IdleCall]
  /\ listening = {}
  /\ focus = NoWindow
  /\ store = EmptyStore
  /\ boot = "idle"
  /\ extActive = [t \in Tabs |-> FALSE]
  /\ expect = NoExpectation
  /\ life = NoLife
  /\ listeners = <<>>
  /\ page = NoPage
  /\ changed = NoChanged
  /\ wrote = NoWrite
  /\ heard = NoHeard

NextRouter ==
  \/ \E c \in Callers, k \in MessageType :
       \E p \in PayloadsOf(k) : CallSendToBackground(c, k, p)
  \/ \E c \in Callers : ListenerNoHandler(c)
  \/ \E c \in Callers, o \in StubOutcomes : ListenerInvokes(c, o)
  \/ \E c \in Callers : HandlerSettles(c)
  \/ \E c \in Callers : ThenCallback(c)
  \/ \E c \in Callers : CatchCallback(c)
  \/ \E c \in Callers : ResponseArrives(c)
  \/ \E c \in Callers : PortClosed(c)
  \/ \E c \in Callers : TransportFails(c)
  \/ WorkerTerminated

SpecRouter == InitRouter /\ [][NextRouter]_vars

\* The background controller: the router over the background's own table,
\* its handlers, the settings store and the lifecycle events.
\* The UI surfaces send any kind; a content script asks for the settings.
KindsFrom(c) ==
  IF CallerTab(c) = NoTab THEN MessageType ELSE {"GET_SETTINGS"}

\* the tabs that have a content script: every other one, so that the fan-out
\* meets a tab without a listener before one with a listener
EvenTabs == {t \in Tabs : t % 2 = 0}

InitSettings ==
  /\ handlers = BackgroundTable
  /\ calls = [c \in Callers |-> IdleCall]
  /\ listening = EvenTabs
  /\ focus = NoWindow
  /\ store = EmptyStore
  /\ boot = "idle"
  /\ extActive = [t \in Tabs |-> FALSE]
  /\ expect = NoExpectation
  /\ life = NoLife
  /\ listeners = <<>>
  /\ page = NoPage
  /\ changed = NoChanged
  /\ wrote = NoWrite
  /\ heard = NoHeard

NextSettings ==
  \/ \E c \in Clients, k \in MessageType :
       /\ k \in KindsFrom(c)
       /\ \E p \in PayloadsOf(k) : CallSendToBackground(c, k, p)
  \/ \E c \in Clients : ListenerBackground(c)
  \/ \E c \in Clients : HandlerReads(c)
  \/ \E c \in Clients : HandlerStorageFails(c)
  \/ \E c \in Clients : HandlerWrites(c) /\ UNCHANGED pageVars
  \/ \E c \in Clients : TabsQueried(c)
  \/ \E c \in Clients : TabsQueryFails(c)
  \/ \E c \in Clients : NotifyDelivered(c)
  \/ \E c \in Clients : NotifyFails(c)
  \/ \E c \in Clients : ThenCallback(c)
  \/ \E c \in Clients : CatchCallback(c)
  \/ \E c \in Clients : ResponseArrives(c)
  \/ ClearStorage /\ UNCHANGED pageVars
  \/ \E reason \in {"install", "update"} : OnInstalled(reason) /\ UNCHANGED life
  \/ OnStartup /\ UNCHANGED life
  \/ InitReadsSettings /\ UNCHANGED life
  \/ InitWritesSettings /\ UNCHANGED <<life, pageVars>>
  \/ InitReadsUserData /\ UNCHANGED life
  \/ InitWritesUserData /\ UNCHANGED <<life, pageVars>>
  \/ InitStorageFails /\ UNCHANGED life

SpecSettings == InitSettings /\ [][NextSettings]_vars

\* The lifecycle listeners on their own: onInstalled and onStartup, and the
\* initializeStorage runs they start, from any content of the store.
MaxRuns == 2         \* completed initializeStorage runs that are followed

\* records of StorageSchema["settings"] and StorageSchema["userData"]
SettingsSamples ==
  {defaultSettings, [enabled |-> FALSE, theme |-> "dark", notifications |-> FALSE]}
UserDataSamples == {defaultUserData, [lastVisit |-> "earlier", visitCount |-> 3]}

StoreSamples ==
  [settings : SettingsSamples \cup {Absent}, userData : UserDataSamples \cup {Absent}]

LifecycleEvents == {"install", "update", "startup"}

InitLifecycle ==
  /\ handlers = BackgroundTable
  /\ calls = [c \in Callers |-> IdleCall]
  /\ listening = {}
  /\ focus = NoWindow
  /\ store \in StoreSamples
  /\ boot = "idle"
  /\ extActive = [t \in Tabs |-> FALSE]
  /\ expect = NoExpectation
  /\ life = [NoLife EXCEPT !.origin = store]
  /\ listeners = <<>>
  /\ page = NoPage
  /\ changed = NoChanged
  /\ wrote = NoWrite
  /\ heard = NoHeard

\* history: an initializeStorage run has reached its end
RunCompleted(l, st) ==
  [l EXCEPT !.done = TRUE, !.runs = @ + 1,
            !.first = IF l.runs = 0 THEN st ELSE @]

\* a lifecycle event is dispatched to its listener
LifecycleEvent(e) ==
  /\ life.runs < MaxRuns
  /\ IF e = "startup" THEN OnStartup ELSE OnInstalled(e)
  /\ life' = [life EXCEPT !.event = e, !.before = store, !.done = (boot' = "idle")]

\* the initializeStorage run takes its next step
LifecycleStep ==
  /\ \/ InitReadsSettings
     \/ InitWritesSettings
     \/ InitReadsUserData
     \/ InitWritesUserData
  /\ life' = IF boot' = "idle" THEN RunCompleted(life, store') ELSE life
  /\ UNCHANGED pageVars

\* the run ends in a rejection: its listener does not complete
LifecycleFails ==
  /\ InitStorageFails
  /\ life' = [life EXCEPT !.event = "failed"]

NextLifecycle ==
  \/ \E e \in LifecycleEvents : LifecycleEvent(e)
  \/ LifecycleStep
  \/ LifecycleFails

SpecLifecycle == InitLifecycle /\ [][NextLifecycle]_vars

\* createMessageHandler called more than once in one context: every call
\* adds a listener of its own.
TableSamples == {{"GET_TAB_INFO"}, {"GET_TAB_INFO", "CONTENT_ACTION"}}

RegistryKinds == {"GET_TAB_INFO", "CONTENT_ACTION", "GET_SETTINGS"}

InitRegistry ==
  /\ InitRouter

NextRegistry ==
  \/ \E S \in TableSamples : CreateMessageHandler(S)
  \/ \E c \in Clients, k \in RegistryKinds :
       \E p \in PayloadsOf(k) : CallSendToBackground(c, k, p)
  \/ \E c \in Clients : ListenersRun(c)
  \/ \E c \in Clients, i \in 1..MaxListeners : ListenerAnswers(c, i)
  \/ \E c \in Clients : ResponseArrives(c)
  \/ \E c \in Clients : PortClosed(c)
  \/ \E c \in Clients : listeners = <<>> /\ TransportFails(c)

SpecRegistry == InitRegistry /\ [][NextRegistry]_vars

\* The tab adapters: sendToTab and sendToActiveTab against content scripts
\* that come and go and a focus that moves.
TabKinds == {"CONTENT_ACTION", "GET_TAB_INFO", "GET_SETTINGS"}

InitAdapters ==
  /\ handlers = PartialTable
  /\ calls = [c \in Callers |-> IdleCall]
  /\ listening \in SUBSET Tabs
  /\ focus \in Foci
  /\ store = EmptyStore
  /\ boot = "idle"
  /\ extActive = [t \in Tabs |-> FALSE]
  /\ expect = NoExpectation
  /\ life = NoLife
  /\ listeners = <<>>
  /\ page = NoPage
  /\ changed = NoChanged
  /\ wrote = NoWrite
  /\ heard = NoHeard

\* what the host does next for caller c's outstanding call
HostStep(c) ==
  \/ QueryAnswered(c)
  \/ QueryFails(c)
  \/ TabDelivers(c)
  \/ TabUnreachable(c)
  \/ ResponseArrives(c)

NextAdapters ==
  \/ \E c \in Clients, t \in Tabs, k \in TabKinds :
       \E p \in PayloadsOf(k) : CallSendToTab(c, t, k, p)
  \/ \E c \in Clients, k \in TabKinds :
       \E p \in PayloadsOf(k) : CallSendToActiveTab(c, k, p)
  \/ \E c \in Clients : HostStep(c)
  \/ \E t \in Tabs : ContentScriptToggles(t)
  \/ \E f \in Foci : FocusChanges(f)

SpecAdapters == InitAdapters /\ [][NextAdapters]_vars

\* sendToTab alone, under a host that settles every message it was given:
\* the content script answers, or the host reports that there is no
\* receiving end.
InitTabSend ==
  /\ InitAdapters
  /\ focus = NoWindow

TabStep(c) ==
  \/ TabDelivers(c)
  \/ TabUnreachable(c)
  \/ ResponseArrives(c)

NextTabSend ==
  \/ \E c \in Clients, t \in Tabs, k \in TabKinds :
       \E p \in PayloadsOf(k) : CallSendToTab(c, t, k, p)
  \/ \E c \in Clients : TabStep(c)
  \/ \E t \in Tabs : ContentScriptToggles(t)

FairTabSend ==
  /\ InitTabSend
  /\ [][NextTabSend]_vars
  /\ \A c \in Clients : WF_vars(TabStep(c))

\* The change event of the store: callbacks are registered and removed through
\* onStorageChange while the store is written and cleared.
StoreWrite ==
  \/ SetStorage("settings", defaultSettings)
  \/ ClearStorage

\* history: the callbacks that are listeners at the write of a change
ChangesWrite ==
  /\ Len(changed.queue) < MaxChanges
  /\ StoreWrite
  /\ EventQueued
  /\ heard' = IF changed'.queue = changed.queue
                THEN heard
                ELSE [heard EXCEPT !.flying = Append(@, changed.on)]
  /\ UNCHANGED <<page, wrote, life>>

\* history: the callbacks called for the change that arrives, and how often
ChangesDelivered ==
  /\ ChangeDelivered
  /\ heard' =
       [flying |-> Tail(heard.flying),
        to |-> Head(heard.flying),
        called |-> [cb \in Callbacks |-> IF cb \in changed.on THEN 1 ELSE 0]]

ChangesSubscribe(cb) ==
  /\ OnStorageChange(cb)
  /\ UNCHANGED heard

ChangesUnsubscribe(cb) ==
  /\ Unsubscribe(cb)
  /\ UNCHANGED heard

InitChanges ==
  /\ InitSettings

NextChanges ==
  \/ \E cb \in Callbacks : ChangesSubscribe(cb)
  \/ \E cb \in Callbacks : ChangesUnsubscribe(cb)
  \/ ChangesWrite
  \/ ChangesDelivered

SpecChanges == InitChanges /\ [][NextChanges]_vars

\* Handlers that race: every context sends one GET_SETTINGS, UPDATE_SETTINGS
\* or TOGGLE_EXTENSION, and the background handles them at the same time.
RaceKinds == {"GET_SETTINGS", "UPDATE_SETTINGS", "TOGGLE_EXTENSION"}

\* history: the handler whose setStorage was applied last, what it had read
\* and what it was asked to write
RaceWrites(c) ==
  /\ HandlerWrites(c)
  /\ wrote' = [by |-> c, type |-> calls[c].type, cur |-> calls[c].cur,
               payload |-> calls[c].payload]
  /\ UNCHANGED <<page, changed, heard>>

InitRace ==
  /\ InitSettings

NextRace ==
  \/ \E c \in Callers, k \in RaceKinds :
       /\ calls[c].pc = "idle"
       /\ \E p \in PayloadsOf(k) : CallSendToBackground(c, k, p)
  \/ \E c \in Callers : ListenerBackground(c)
  \/ \E c \in Callers : HandlerReads(c)
  \/ \E c \in Callers : HandlerStorageFails(c)
  \/ \E c \in Callers : RaceWrites(c)
  \/ \E c \in Callers : TabsQueried(c)
  \/ \E c \in Callers : NotifyDelivered(c)
  \/ \E c \in Callers : NotifyFails(c)
  \/ \E c \in Callers : ThenCallback(c)
  \/ \E c \in Callers : CatchCallback(c)
  \/ \E c \in Callers : ResponseArrives(c)

SpecRace == InitRace /\ [][NextRace]_vars

\* A UI surface and the background: the Popup or the Options page is opened,
\* its controls are used one after the other, and the background handles what
\* they send.
Surfaces == {"popup", "options"}

\* a handler's write of the store, with the change event it causes
PageHandlerWrites ==
  /\ Len(changed.queue) < MaxChanges
  /\ HandlerWrites(PageCaller)
  /\ EventQueued
  /\ UNCHANGED <<page, wrote, heard>>

\* what the background and the host do next for the surface's request
PageRequestStep ==
  \/ ListenerBackground(PageCaller)
  \/ HandlerReads(PageCaller)
  \/ HandlerStorageFails(PageCaller)
  \/ TabsQueried(PageCaller)
  \/ TabsQueryFails(PageCaller)
  \/ NotifyDelivered(PageCaller)
  \/ NotifyFails(PageCaller)
  \/ ThenCallback(PageCaller)
  \/ CatchCallback(PageCaller)
  \/ ResponseArrives(PageCaller)

InitPages ==
  /\ InitSettings

NextPages ==
  \/ \E surface \in Surfaces : Mount(surface)
  \/ Close
  \/ LoadResumes
  \/ PopupTabQueried
  \/ PopupTabQueryFails
  \/ ToggleEnabled
  \/ ToggleResumes
  \/ \E edit \in OptionsEdits : UpdateSetting(edit)
  \/ UpdateResumes
  \/ SavedExpires
  \/ HandleResetSettings
  \/ ResetCleared
  \/ ResetClearFails
  \/ ResetLoads
  \/ ResetLoadResumes
  \/ PageRequestStep
  \/ PageHandlerWrites
  \/ ChangeDelivered /\ UNCHANGED heard

SpecPages == InitPages /\ [][NextPages]_vars

\* Content scripts and the toggle: pages load their content script, whose
\* init asks for the settings, while the popup toggles the extension.
InitContent ==
  /\ handlers = BackgroundTable
  /\ calls = [c \in Callers |-> IdleCall]
  /\ listening = {}
  /\ focus = NoWindow
  /\ store = EmptyStore
  /\ boot = "idle"
  /\ extActive = [t \in Tabs |-> FALSE]
  /\ expect = NoExpectation
  /\ life = NoLife
  /\ listeners = <<>>
  /\ page = NoPage
  /\ changed = NoChanged
  /\ wrote = NoWrite
  /\ heard = NoHeard

NextContent ==
  \/ \E t \in ScriptTabs : ContentLoads(t)
  \/ \E t \in ScriptTabs : ContentInitResumes(t)
  \/ \E p \in PayloadsOf("TOGGLE_EXTENSION") :
       CallSendToBackground(PageCaller, "TOGGLE_EXTENSION", p)
  \/ \E c \in Callers : ListenerBackground(c)
  \/ \E c \in Callers : HandlerReads(c)
  \/ \E c \in Callers : HandlerWrites(c) /\ UNCHANGED pageVars
  \/ \E c \in Callers : TabsQueried(c)
  \/ \E c \in Callers : NotifyDelivered(c)
  \/ \E c \in Callers : NotifyFails(c)
  \/ \E c \in Callers : ThenCallback(c)
  \/ \E c \in Callers : ResponseArrives(c)

SpecContent == InitContent /\ [][NextContent]_vars

\* ================================================================== claims
\* a call whose message reached the router's listener
Routed(c) == calls[c].api = "sendToBackground" /\ calls[c].ret # "none"

Registered(c) == handlers[calls[c].type] # "none"

C3_ChannelKeptOpen ==
  \A c \in Callers :
    (Routed(c) /\ Registered(c) /\ ~calls[c].lost)
      => /\ calls[c].ret = "true"
         /\ calls[c].nresp > 0 => calls[c].h \in {"fulfilled", "rejected"}
         /\ calls[c].h = "pending" => calls[c].pc = "listening"

\* C4: when the handler of a registered kind completes normally with value v,
\* the response is {success: true, data: v} with no error field, it is what
\* sendToBackground returns, and the handler was invoked once with the
\* request's payload and the sender descriptor.
C4_SuccessResponse ==
  \A c \in Callers :
    (Routed(c) /\ calls[c].h = "fulfilled" /\ calls[c].reacted)
      => /\ calls[c].nresp = 1
         /\ calls[c].resp = [success |-> TRUE, data |-> calls[c].hval]
         /\ DOMAIN calls[c].resp = {"success", "data"}
         /\ calls[c].invoked =
              <<[payload |-> calls[c].payload, sender |-> [tab |-> CallerTab(c)]]>>
         /\ calls[c].pc = "done" =>
              calls[c].out = Resolved([success |-> TRUE, data |-> calls[c].hval])

C4_Witness ==
  \E c \in Callers :
    /\ calls[c].pc = "done" /\ calls[c].h = "fulfilled"
    /\ calls[c].type = "TOGGLE_EXTENSION"
    /\ calls[c].out.val.data.echo = [enabled |-> FALSE]

\* C5, as stated: when a registered handler fails, by throwing or by its
\* promise rejecting, the response is {success: false, error: m}, m the
\* failure's message, or "Unknown error" when it is not an Error object.
C5_FailureResponse ==
  \A c \in Callers :
    (Routed(c) /\ calls[c].h \in {"rejected", "threw"} /\ calls[c].pc = "done")
      => /\ calls[c].nresp = 1
         /\ calls[c].resp =
              [success |-> FALSE,
               error |-> IF calls[c].hval.isError THEN calls[c].hval.message
                                                    ELSE "Unknown error"]

\* ---------------------------------------------------------------- adapters
\* the call's message went out and the host reported a transport failure
TransportFailed(c) == ~calls[c].host.ok /\ calls[c].host.val # Void

\* C6, as stated: every adapter call resolves to a MessageResponse and never
\* rejects, whatever the host does.
C6_AlwaysMessageResponse ==
  \A c \in Callers :
    (calls[c].pc = "done" /\ calls[c].api # "none")
      => /\ calls[c].out.st = "resolved"
         /\ IsMessageResponse(calls[c].out.val)

\* C7: when the transport to the tab fails, sendToTab resolves to
\* {success: false, error: <the failure's message>} and does not reject.
C7_TabFailureCaught ==
  \A c \in Callers :
    (calls[c].api \in {"sendToTab", "sendToActiveTab"} /\ TransportFailed(c))
      => /\ calls[c].pc = "done"
         /\ calls[c].out =
              Resolved([success |-> FALSE, error |-> calls[c].host.val.message])

C7_Witness ==
  \E c \in Callers :
    /\ calls[c].api = "sendToTab" /\ TransportFailed(c)
    /\ calls[c].out.val.error = NoReceiver

\* C8: when the active-tab query yields no tab, or a tab without an id,
\* sendToActiveTab resolves to {success: false, error: "No active tab found"}
\* and transmits nothing; otherwise it transmits exactly one message, to the
\* tab the query gave.
C8_ActiveTab ==
  \A c \in Callers :
    calls[c].api = "sendToActiveTab"
      => /\ (calls[c].q.st = "answered" /\ calls[c].q.tab \notin Tabs)
              => /\ calls[c].pc = "done"
                 /\ calls[c].out =
                      Resolved([success |-> FALSE, error |-> "No active tab found"])
                 /\ calls[c].sent = <<>>
         /\ (calls[c].q.st = "answered" /\ calls[c].q.tab \in Tabs)
              => calls[c].sent = <<calls[c].q.tab>>
         /\ calls[c].q.st # "answered" => calls[c].sent = <<>>

C8_Witness ==
  \E c \in Callers :
    /\ calls[c].api = "sendToActiveTab"
    /\ calls[c].q = QueryGave(NoTab)
    /\ calls[c].pc = "done"

GetReads(c) ==
  /\ calls[c].type = "GET_SETTINGS"
  /\ Suspended(c, "get")
  /\ calls'[c].h = "fulfilled"

\* the response sendToBackground gave for call c carries the handler's value
Answered(c) ==
  calls[c].pc = "done" =>
    calls[c].out = Resolved([success |-> TRUE, data |-> calls[c].hval])

\* C10: a GET_SETTINGS that reads the store after an UPDATE_SETTINGS(p) wrote
\* it, with no other write in between, returns the record in which every
\* field of p has p's value and every other field the value it had before the
\* update (the default when there was no record).
C10_UpdateThenGet ==
  [][\A c \in Clients :
       /\ (GetReads(c) /\ expect.live /\ expect.by = "UPDATE_SETTINGS")
            => calls'[c].hval = expect.val
       /\ (calls'[c].type = "GET_SETTINGS" /\ calls'[c].h = "fulfilled"
             /\ calls'[c].saw.by = "UPDATE_SETTINGS")
            => Answered(c)']_vars

C10_Witness ==
  \E c \in Clients :
    /\ calls[c].type = "GET_SETTINGS" /\ calls[c].pc = "done"
    /\ calls[c].h = "fulfilled"
    /\ calls[c].saw = [by |-> "UPDATE_SETTINGS", p |-> [theme |-> "dark"]]
    /\ calls[c].out.val.data =
         [enabled |-> FALSE, theme |-> "dark", notifications |-> TRUE]

\* the step in which the TOGGLE_EXTENSION handler of call c writes the record
\* it built from the settings it read, nothing having written them since
ToggleWrites(c) ==
  /\ calls[c].type = "TOGGLE_EXTENSION"
  /\ Suspended(c, "set")
  /\ calls'[c].hpc = "tabs"
  /\ store.settings = calls[c].pre

\* C11: TOGGLE_EXTENSION({enabled: e}) writes a record with enabled = e and
\* theme and notifications as they were before (from the defaults, a toggle to
\* false gives {enabled: false, theme: "system", notifications: true}), and a
\* GET_SETTINGS that reads the store after it, with no other write in
\* between, returns that record.
C11_ToggleThenGet ==
  [][\A c \in Clients :
       /\ ToggleWrites(c)
            => LET was == store.settings
                   now == store'.settings
               IN /\ DOMAIN now = {"enabled", "theme", "notifications"}
                  /\ now.enabled = calls[c].payload.enabled
                  /\ was # Absent => /\ now.theme = was.theme
                                      /\ now.notifications = was.notifications
                  /\ (was \in {Absent, defaultSettings} /\ ~calls[c].payload.enabled)
                       => now = [enabled |-> FALSE, theme |-> "system",
                                 notifications |-> TRUE]
       /\ (GetReads(c) /\ expect.live /\ expect.by = "TOGGLE_EXTENSION")
            => /\ calls'[c].hval = store.settings
               /\ calls'[c].hval.enabled = expect.p.enabled
       /\ (calls'[c].type = "GET_SETTINGS" /\ calls'[c].h = "fulfilled"
             /\ calls'[c].saw.by = "TOGGLE_EXTENSION")
            => Answered(c)']_vars

C11_Witness ==
  \E c \in Clients :
    /\ calls[c].type = "GET_SETTINGS" /\ calls[c].pc = "done"
    /\ calls[c].h = "fulfilled"
    /\ calls[c].saw = [by |-> "TOGGLE_EXTENSION", p |-> [enabled |-> TRUE]]
    /\ calls[c].out.val.data =
         [enabled |-> TRUE, theme |-> "dark", notifications |-> TRUE]

\* --------------------------------------------------------------- lifecycle
\* C12: initializeStorage is idempotent: from any store, after two runs in
\* succession the settings record and the set of keys present are what they
\* were after the first run, and a settings record that existed before the
\* first run is unchanged.
C12_InitializeIdempotent ==
  /\ life.runs >= 2 =>
       /\ store.settings = life.first.settings
       /\ KeysOf(store) = KeysOf(life.first)
  /\ (life.runs >= 1 /\ life.origin.settings # Absent) =>
       store.settings = life.origin.settings

C12_Witness ==
  /\ life.runs = 2
  /\ boot = "idle"
  /\ life.origin =
       [settings |-> [enabled |-> FALSE, theme |-> "dark", notifications |-> FALSE],
        userData |-> Absent]
  /\ store = [life.origin EXCEPT !.userData = defaultUserData]

\* C17: when the fresh-install listener or the browser-startup listener has
\* completed, the settings key is present: it holds the defaults if it was
\* absent when the event came, and its previous value if it was present.
C17_SettingsPresentAfterBoot ==
  (life.event \in {"install", "startup"} /\ life.done)
    => /\ store.settings # Absent
       /\ store.settings =
            IF life.before.settings = Absent
              THEN [enabled |-> TRUE, theme |-> "system", notifications |-> TRUE]
              ELSE life.before.settings

C17_Witness ==
  /\ life.event = "install" /\ life.done
  /\ life.before.settings = Absent
  /\ store.settings = defaultSettings

\* C18: handling an update event leaves the whole store unchanged: no key is
\* written, removed or defaulted, and no initializeStorage run is started.
C18_UpdateLeavesStore ==
  life.event = "update"
    => /\ store = life.before
       /\ boot = "idle"
       /\ life.done

C18_Witness ==
  /\ life.event = "update"
  /\ life.runs = 0
  /\ store = EmptyStore

\* ------------------------------------------------------------------- reset
\* a GET_SETTINGS whose read of the store came after a clearStorage(), with no
\* write to the store in between
ReadAfterClear(c) ==
  /\ calls[c].type = "GET_SETTINGS"
  /\ calls[c].h = "fulfilled"
  /\ calls[c].saw.by = "clearStorage"

\* C13, as stated: after clearStorage(), and until a write, GET_SETTINGS
\* returns "absent": its response carries no settings record.
C13_AbsentAfterClear ==
  \A c \in Clients :
    ReadAfterClear(c)
      => /\ calls[c].hval = Absent
         /\ calls[c].pc = "done" => calls[c].out.val.data = Absent

\* C13, amended: after clearStorage(), and until a write, the store has no
\* settings key, and GET_SETTINGS answers {success: true, data: d}, d the
\* defaults {enabled: true, theme: "system", notifications: true}.
C13_DefaultsAfterClear ==
  \A c \in Clients :
    ReadAfterClear(c)
      => /\ calls[c].cur = Absent
         /\ calls[c].hval =
              [enabled |-> TRUE, theme |-> "system", notifications |-> TRUE]
         /\ calls[c].pc = "done" =>
              calls[c].out = Resolved([success |-> TRUE, data |-> calls[c].hval])

C13_Witness ==
  \E c \in Clients :
    /\ ReadAfterClear(c) /\ calls[c].pc = "done"
    /\ expect.by = "clearStorage" /\ "settings" \in expect.keys
    /\ calls[c].out.val.data = defaultSettings

\* C14: clearStorage() removes every key, userData as well as settings:
\* getAllStorage() gives the empty mapping after it, and until the next write
\* to the store; the read that follows it in the Options page's reset writes
\* nothing.
C14_ClearRemovesEveryKey ==
  expect.by = "clearStorage"
    => /\ getAllStorage(store) = EmptyMapping
       /\ store.settings = Absent /\ store.userData = Absent

C14_Witness ==
  /\ expect.by = "clearStorage"
  /\ expect.keys = {"settings", "userData"}
  /\ store = EmptyStore
  /\ \E c \in Clients : ReadAfterClear(c) /\ calls[c].pc = "done"

\* ----------------------------------------------------------------- fan-out
\* the fan-out of call c has sent the notification, carrying the value e, to
\* every tab that has an id, once each
NotifiedAll(c, e) ==
  /\ Len(calls[c].fan) = Cardinality(Tabs)
  /\ {calls[c].fan[i].tab : i \in DOMAIN calls[c].fan} = Tabs
  /\ \A i \in DOMAIN calls[c].fan : calls[c].fan[i].enabled = e

\* C15, as stated: whenever a handled message has changed the persisted
\* enabled flag, EXTENSION_STATE_CHANGED carrying the new value has been sent
\* to every tab by the time its handler completes.
C15_EveryToggleNotifies ==
  \A c \in Clients :
    (Routed(c) /\ calls[c].flip /\ calls[c].h = "fulfilled")
      => NotifiedAll(c, calls[c].payload.enabled)

\* C16: in the TOGGLE_EXTENSION fan-out a rejected delivery never ends the
\* handler: when it completes, every tab with an id has been sent the
\* notification, the handler's value is {success: true} and the caller's
\* response is success: true.
C16_FanOutTolerant ==
  \A c \in Clients :
    calls[c].type = "TOGGLE_EXTENSION"
      => /\ calls[c].failed # {} => calls[c].h \in {"pending", "fulfilled"}
         /\ calls[c].h = "fulfilled" =>
              /\ NotifiedAll(c, calls[c].payload.enabled)
              /\ calls[c].hval = [success |-> TRUE]
              /\ calls[c].pc = "done" =>
                   /\ calls[c].out.st = "resolved"
                   /\ calls[c].out.val.success
                   /\ calls[c].out.val.data = [success |-> TRUE]

C16_Witness ==
  \E c \in Clients :
    /\ calls[c].type = "TOGGLE_EXTENSION" /\ calls[c].pc = "done"
    /\ calls[c].out.val.success
    /\ \E i, j \in DOMAIN calls[c].fan :
         /\ i < j
         /\ calls[c].fan[i].tab \in calls[c].failed
         /\ calls[c].fan[j].tab \notin calls[c].failed

\* ------------------------------------------------------------------- shape
\* StorageSchema["settings"]: a record with the three fields, each of its type
IsSettings(r) ==
  /\ DOMAIN r = {"enabled", "theme", "notifications"}
  /\ r.enabled \in BOOLEAN
  /\ r.theme \in {"light", "dark", "system"}
  /\ r.notifications \in BOOLEAN

\* C19: in every reachable state, under any interleaving of install, update
\* and startup events, UPDATE_SETTINGS, TOGGLE_EXTENSION and clearStorage, the
\* stored settings record is absent or has all three fields: no partial
\* record is persisted.
C19_NoPartialSettings ==
  store.settings = Absent \/ IsSettings(store.settings)

C19_Witness ==
  /\ expect.live /\ expect.by = "UPDATE_SETTINGS"
  /\ expect.p = [theme |-> "dark"]
  /\ \E c \in Clients : calls[c].type = "UPDATE_SETTINGS" /\ calls[c].pre = Absent
  /\ store.settings = [enabled |-> TRUE, theme |-> "dark", notifications |-> TRUE]

\* ---------------------------------------------------------------- registry
\* C20, as stated: when createMessageHandler was called twice with a handler
\* for the same kind, the second replaces the first: a message of that kind
\* invokes only the later handler and sendResponse is called once.
C20_LastHandlerWins ==
  \A c \in Clients :
    (Routed(c) /\ Len(HandlingListeners(calls[c].type)) >= 2
       /\ calls[c].who # <<>>)
      => /\ calls[c].who = <<Len(listeners)>>
         /\ Len(calls[c].invoked) = 1
         /\ calls[c].nresp <= 1
         /\ calls[c].pc = "done" => calls[c].out.val.data.handler = Len(listeners)

ChangeArrives == Len(changed'.queue) < Len(changed.queue)

AllComplete == \A c \in Callers : calls[c].pc \in {"idle", "done"}

\* the record a handler writes: what it read, or the defaults, with its
\* payload spread over it
WrittenRecord(w) ==
  IF w.type = "UPDATE_SETTINGS"
    THEN SpreadMerge(OrDefault(w.cur), w.payload)
    ELSE SpreadMerge(OrDefault(w.cur), [enabled |-> w.payload.enabled])

\* C22: when UPDATE_SETTINGS and TOGGLE_EXTENSION handlers have run at the
\* same time and all have completed, the stored settings are the record of the
\* handler whose setStorage was applied last: the snapshot that handler read,
\* shallow-merged with its own payload.
C22_LastWriteWins ==
  (AllComplete /\ wrote.by # 0) => store.settings = WrittenRecord(wrote)

\* two handlers read the empty store, the update wrote its theme, the toggle
\* wrote last: the theme of the update is gone
C22_Witness ==
  \E c, d \in Callers :
    /\ AllComplete
    /\ wrote.by = d
    /\ calls[d].type = "TOGGLE_EXTENSION" /\ calls[d].cur = Absent
    /\ calls[d].out = Resolved([success |-> TRUE, data |-> [success |-> TRUE]])
    /\ calls[c].type = "UPDATE_SETTINGS" /\ calls[c].payload = [theme |-> "dark"]
    /\ calls[c].out = Resolved([success |-> TRUE, data |-> [success |-> TRUE]])
    /\ store.settings.theme = "system"

\* --------------------------------------------------------- storage failure
\* a store operation awaited by the handler of call c has failed
StoreOpFailed(call) ==
  call.h = "rejected" /\ call.hval = Err(StorageFailed)

\* what the caller is told then
StorageFailure == [success |-> FALSE, error |-> StorageFailed]

\* C23: when the read or the write of the store fails in GET_SETTINGS,
\* UPDATE_SETTINGS or TOGGLE_EXTENSION, the step leaves the store as it was,
\* the handler is over (no second attempt, no later store operation), a
\* toggle has sent no EXTENSION_STATE_CHANGED, and the one response the
\* request gets is {success: false, error: <the failure's message>}.
C23_StorageFailureSurfaces ==
  [][\A c \in Callers :
       /\ (~StoreOpFailed(calls[c]) /\ StoreOpFailed(calls'[c])) => store' = store
       /\ StoreOpFailed(calls'[c]) =>
            /\ calls'[c].hpc = "none"
            /\ calls'[c].fan = <<>>
            /\ calls'[c].nresp <= 1
            /\ calls'[c].nresp = 1 => calls'[c].resp = StorageFailure
            /\ calls'[c].pc = "done" => calls'[c].out = Resolved(StorageFailure)]_vars

\* a toggle read the settings, its write failed, and its caller has the answer
C23_Witness ==
  \E c \in Callers :
    /\ calls[c].type = "TOGGLE_EXTENSION"
    /\ calls[c].cur # Void
    /\ StoreOpFailed(calls[c])
    /\ calls[c].pc = "done"
    /\ calls[c].out = Resolved(StorageFailure)
    /\ calls[c].fan = <<>>
    /\ store.settings = calls[c].pre

\* ------------------------------------------------------- popup and options
\* the answer to the surface's request reports a failure
ReportsFailure(call) ==
  /\ call.out.st = "resolved"
  /\ IsMessageResponse(call.out.val)
  /\ ~call.out.val.success

\* toggleEnabled or updateSetting resumes with an answer that reports a
\* failure, the view being what the function left when it was suspended
ActionFailed ==
  /\ page.pc \in {"toggle", "update"}
  /\ page'.pc = "idle"
  /\ ReportsFailure(calls[PageCaller])
  /\ page.settings = IF page.pc = "toggle"
                       THEN page.closure
                       ELSE SpreadMerge(page.closure, calls[PageCaller].payload)

\* C24, as stated: when a TOGGLE_EXTENSION or UPDATE_SETTINGS call made by
\* the Popup or the Options page reports a failure, the controller's settings
\* are again what they were before the action and the Options "saved"
\* indicator is not raised.
C24_FailureReverts ==
  [][ActionFailed =>
       /\ page'.settings = page.closure
       /\ page'.saved => page.saved]_vars

\* C27, as stated: once "Reset to Defaults" has completed, its GET_SETTINGS
\* having returned the defaults, and every change event has been delivered,
\* the Options view shows the default settings, whichever of the change event
\* and the response arrived first.
C27_ResetShowsDefaults ==
  (/\ page.surface = "options"
   /\ page.pc = "idle"
   /\ page.last = "reset"
   /\ changed.queue = <<>>
   /\ calls[PageCaller].out = Resolved(ThenResponse(defaultSettings)))
    => page.settings = defaultSettings

\* ------------------------------------------- initialization against handlers
\* initializeStorage's `await setStorage("settings", defaultSettings)` is applied
InitWritesDefaults == boot = "setSettings" /\ boot' = "getUserData"

\* C25, as stated: initializeStorage running at the same time as an
\* UPDATE_SETTINGS or TOGGLE_EXTENSION handler destroys nothing: when it writes
\* the defaults the store holds no settings record, or the very same record;
\* it never replaces a record a handler has written.
C25_InitKeepsHandlerWrite ==
  [][InitWritesDefaults =>
       store.settings = Absent \/ store'.settings = store.settings]_vars

\* --------------------------------------------------------- content scripts
\* no request is under way and every init has run to its end
Settled ==
  \A c \in Callers :
    IF CallerTab(c) = NoTab
      THEN calls[c].pc \in {"idle", "done"}
      ELSE calls[c].pc \in {"idle", "over"}

\* C26, as stated: once every request and notification has completed, the
\* extension-active flag of every tab that has a content script equals the
\* stored enabled value (the default when nothing is stored), however the
\* scripts' init and the toggles' fan-outs were interleaved.
C26_FlagsFollowStore ==
  Settled =>
    \A t \in listening : extActive[t] = OrDefault(store.settings).enabled

\* ------------------------------------------------------ order of the toggle
\* C28: within one TOGGLE_EXTENSION handling, the first EXTENSION_STATE_CHANGED
\* is sent only when the handler is past its write of the store; a step sends
\* at most one notification, and the next one only when the previous one has
\* settled (its tab has handled it, or its sendMessage was rejected); and
\* sendResponse is called only when the handler has returned, no notification
\* being outstanding.
C28_ToggleInOrder ==
  [][\A c \in Callers :
       (calls[c].type = "TOGGLE_EXTENSION" /\ calls'[c].type = "TOGGLE_EXTENSION")
         => /\ Len(calls'[c].fan) <= Len(calls[c].fan) + 1
            /\ Len(calls'[c].fan) > Len(calls[c].fan) =>
                 IF calls[c].fan = <<>>
                   THEN calls[c].hpc = "tabs"
                   ELSE LET t == calls[c].fan[Len(calls[c].fan)].tab
                        IN /\ calls[c].hpc = "notify"
                           /\ \/ t \in calls'[c].failed
                              \/ /\ t \in listening
                                 /\ extActive'[t] = calls[c].payload.enabled
            /\ calls'[c].nresp > calls[c].nresp =>
                 /\ calls[c].hpc = "none"
                 /\ calls[c].h \in {"fulfilled", "rejected"}]_vars

\* a toggle that wrote, notified every tab in turn, one of them without a
\* listener, and whose caller has the answer
C28_Witness ==
  \E c \in Callers :
    /\ calls[c].type = "TOGGLE_EXTENSION"
    /\ calls[c].pc = "done"
    /\ calls[c].out = Resolved(ThenResponse([success |-> TRUE]))
    /\ Len(calls[c].fan) = MaxTabs
    /\ calls[c].failed # {}
    /\ wrote.by # 0

====
